---- MODULE Spec2Model ----
(***************************************************************************)
(* Model of trainer.py: TaskSpec / get_task_spec (task resolution from the *)
(* command line and the environment), Trainer (construction and the        *)
(* train() driver) and StopAtTimeHook.                                     *)
(*                                                                         *)
(* Python values are tagged records, so that isinstance(), truthiness and  *)
(* == between values of different types behave as they do in Python.  A    *)
(* str is a sequence of one-character strings.                             *)
(***************************************************************************)
EXTENDS Integers, Sequences, FiniteSets, TLC

VARIABLES
    \* process launch state read by get_task_spec
    argv,           \* parsed command line flags (argparse namespace)
    environ,        \* os.environ
    \* Trainer.train
    pc,             \* position inside train() / get_task_spec()
    task_spec,      \* local task_spec of train(), or the raised exception
    server,         \* tf.train.Server started by train(), or None
    target,         \* session target
    device,         \* device setter
    sess,           \* "none" | "open" | "closed"
    is_chief,       \* is_chief passed to MonitoredTrainingSession
    stop,           \* the session's stop state (sess.should_stop())
    trace,          \* calls made by train(), in order
    pre_train_fn,   \* TRUE when the caller passed pre_train_fn
    post_train_fn,  \* TRUE when the caller passed post_train_fn
    \* TaskSpec construction on its own
    ctor_args,      \* arguments of the last TaskSpec(...) call
    ctor_obj,       \* the object it built
    \* Trainer construction
    default_hooks,  \* the list object bound to the default of `hooks` (line 90)
    trainers,       \* the Trainer objects constructed so far, in order
    \* StopAtTimeHook
    time_running,   \* self._time_running
    end_time,       \* self._end_time (Unset before begin())
    now,            \* time.time()
    stop_requests,  \* calls of run_context.request_stop() so far
    after_runs,     \* calls of after_run() so far
    last_requested  \* TRUE when the last after_run() call requested a stop

vars == << argv, environ, pc, task_spec, server, target, device, sess, is_chief,
           stop, trace, pre_train_fn, post_train_fn, ctor_args, ctor_obj,
           default_hooks, trainers, time_running, end_time, now, stop_requests,
           after_runs, last_requested >>

trainVars == << pc, task_spec, server, target, device, sess, is_chief, stop,
                trace, pre_train_fn, post_train_fn >>
launchVars == << argv, environ >>
ctorVars == << ctor_args, ctor_obj >>
trainerVars == << default_hooks, trainers >>
hookVars == << time_running, end_time, now, stop_requests, after_runs, last_requested >>

----------------------------------------------------------------------------
(* Bounds *)

MaxIndex == 1        \* task indices 0..MaxIndex
MaxSteps == 2        \* iterations of the training loop
MaxHosts == 2        \* endpoints in one host list
MaxHostLen == 2      \* characters in one endpoint
MaxTrainers == 3     \* Trainer constructions in one process
MaxDuration == 2     \* time_running of a StopAtTimeHook
MaxNow == 4          \* clock ticks
MaxCalls == 3        \* after_run calls

----------------------------------------------------------------------------
(* Python values *)

None == [t |-> "None"]
Unset == [t |-> "unset"]
PyStr(s) == [t |-> "str", v |-> s]
PyInt(n) == [t |-> "int", v |-> n]
PyList(l) == [t |-> "list", v |-> l]
PyDict(f) == [t |-> "dict", v |-> f]
Raise(e) == [t |-> "raise", exc |-> e]

\* bool(x)
Truthy(x) ==
    CASE x.t = "None" -> FALSE
      [] x.t = "str"  -> Len(x.v) > 0
      [] x.t = "list" -> Len(x.v) > 0
      [] x.t = "int"  -> x.v # 0
      [] x.t = "dict" -> DOMAIN x.v # {}
      [] OTHER        -> TRUE

\* a or b
PyOr(a, b) == IF Truthy(a) THEN a ELSE b

\* a == b
PyEq(a, b) == a.t = b.t /\ (a.t = "None" \/ a.v = b.v)

\* d.get(k, default)
DictGet(d, k, default) == IF k \in DOMAIN d.v THEN d.v[k] ELSE default

\* s.split(sep) on a non-empty separator of one character
RECURSIVE Split(_, _)
\* variant: the string is taken as one endpoint
SplitNone(s, sep) == << s >>
Split(s, sep) ==
    IF \A i \in 1..Len(s) : s[i] # sep
    THEN << s >>
    ELSE LET i == CHOOSE k \in 1..Len(s) :
                      s[k] = sep /\ \A j \in 1..(k - 1) : s[j] # sep
         IN  << SubSeq(s, 1, i - 1) >> \o Split(SubSeq(s, i + 1, Len(s)), sep)

\* sep.join(l)
RECURSIVE Join(_, _)
Join(l, sep) ==
    IF Len(l) = 0 THEN << >>
    ELSE IF Len(l) = 1 THEN l[1]
    ELSE l[1] \o << sep >> \o Join(Tail(l), sep)

Digits == << "0", "1", "2", "3", "4", "5", "6", "7", "8", "9" >>
\* str(n) for 0 <= n <= 9
IndexStr(n) == << Digits[n + 1] >>

PS == << "p", "s" >>
WORKER == << "w", "o", "r", "k", "e", "r" >>
MASTER == << "m", "a", "s", "t", "e", "r" >>
MATER == << "m", "a", "t", "e", "r" >>

----------------------------------------------------------------------------
(* TaskSpec *)

\* tf.train.ClusterSpec({'ps': ps, 'worker': worker})
ClusterSpec(p, w) == [t |-> "ClusterSpec", v |-> [ps |-> p, worker |-> w]]

\* ps_hosts if isinstance(ps_hosts, list) else ps_hosts.split(',')
HostList(hosts) == IF hosts.t = "list" THEN hosts.v ELSE Split(hosts.v, ",")

\* variant: `is not None` in place of the truth test of line 21
TaskSpecInit_NotNone(job_name, index, ps_hosts, worker_hosts) ==
    [t |-> "TaskSpec", job_name |-> job_name, index |-> index,
     cluster_spec |->
        IF ps_hosts # None /\ worker_hosts # None
        THEN ClusterSpec(IF ps_hosts.t = "list" THEN ps_hosts.v ELSE Split(ps_hosts.v, ","),
                         IF worker_hosts.t = "list" THEN worker_hosts.v
                         ELSE Split(worker_hosts.v, ","))
        ELSE None]

\* TaskSpec.__init__
TaskSpecInit(job_name, index, ps_hosts, worker_hosts) ==
    [t |-> "TaskSpec", job_name |-> job_name, index |-> index,
     cluster_spec |->
        IF Truthy(ps_hosts) /\ Truthy(worker_hosts)
        THEN ClusterSpec(HostList(ps_hosts), HostList(worker_hosts))
        ELSE None]

\* os.environ[key]
EnvironItem(env, key) == IF env[key] = Unset THEN Raise("KeyError") ELSE env[key]

\* os.environ.get(key, default): a key that is not a str raises TypeError
EnvironGet(env, key, default) ==
    IF key.t # "str" THEN Raise("TypeError")
    ELSE IF env[key.v] = Unset THEN default ELSE env[key.v]

\* json.loads
JsonText(doc) == [t |-> "str", json |-> doc]
json_loads(s) == IF "json" \in DOMAIN s THEN s.json ELSE Raise("ValueError")

\* the arguments of one TaskSpec(...) call
Call(job_name, index, ps_hosts, worker_hosts) ==
    [t |-> "call", job_name |-> job_name, index |-> index,
     ps_hosts |-> ps_hosts, worker_hosts |-> worker_hosts]

\* TaskSpec(job_name=..., index=..., ps_hosts=..., worker_hosts=...)
Construct(c) == TaskSpecInit(c.job_name, c.index, c.ps_hosts, c.worker_hosts)

\* the JOB_NAME branch of get_task_spec; the arguments are evaluated left to right
CallFromEnv(env) ==
    LET index == EnvironItem(env, "TASK_INDEX")
        ps_hosts == EnvironGet(env, PyList(<< "PS_HOSTS" >>), None)
        worker_hosts == EnvironGet(env, PyList(<< "WORKER_HOSTS" >>), None)
    IN  IF index.t = "raise" THEN index
        ELSE IF ps_hosts.t = "raise" THEN ps_hosts
        ELSE IF worker_hosts.t = "raise" THEN worker_hosts
        ELSE Call(env["JOB_NAME"], index, ps_hosts, worker_hosts)

\* the TF_CONFIG branch of get_task_spec
CallFromTfConfig(env) ==
    LET doc == json_loads(env["TF_CONFIG"])
        task_data == PyOr(DictGet(doc, "task", None),
                          PyDict([type |-> PyStr(MASTER), index |-> PyInt(0)]))
        cluster_data == PyOr(DictGet(doc, "cluster", None),
                             PyDict([ps |-> None, worker |-> None]))
    IN  IF doc.t = "raise" THEN doc
        ELSE IF {"type", "index"} \subseteq DOMAIN task_data.v
                /\ {"ps", "worker"} \subseteq DOMAIN cluster_data.v
        THEN Call(task_data.v["type"], task_data.v["index"],
                  cluster_data.v["ps"], cluster_data.v["worker"])
        ELSE Raise("KeyError")

\* TaskSpec(): the defaults of TaskSpec.__init__
DefaultCall == Call(PyStr(MATER), PyInt(0), None, None)

\* variant: the environment is consulted before the flags
TaskSpecCall_EnvFirst(args, env) ==
    IF env["JOB_NAME"] # Unset THEN CallFromEnv(env)
    ELSE IF env["TF_CONFIG"] # Unset THEN CallFromTfConfig(env)
    ELSE IF Truthy(args.job_name)
    THEN Call(args.job_name, args.task_index, args.ps_hosts, args.worker_hosts)
    ELSE DefaultCall

\* get_task_spec up to the TaskSpec(...) call it makes, or the exception it raises
TaskSpecCall(args, env) ==
    IF Truthy(args.job_name)
    THEN Call(args.job_name, args.task_index, args.ps_hosts, args.worker_hosts)
    ELSE IF env["JOB_NAME"] # Unset THEN CallFromEnv(env)
    ELSE IF env["TF_CONFIG"] # Unset THEN CallFromTfConfig(env)
    ELSE DefaultCall

\* get_task_spec
get_task_spec(args, env) ==
    LET c == TaskSpecCall(args, env)
    IN  IF c.t = "raise" THEN c ELSE Construct(c)

----------------------------------------------------------------------------
(* Launch states: command lines and environments *)

Indices == 0..MaxIndex

JobNameFlags == { None, PyStr(<< >>), PyStr(PS), PyStr(WORKER) }
IndexFlags == { None } \cup { PyStr(IndexStr(i)) : i \in Indices }
HostFlags == { None, PyStr(<< >>), PyStr(<< "a" >>), PyStr(<< "a", ",", "b" >>) }

\* argparse: every flag is None when absent and a str when given
Argvs == [job_name : JobNameFlags, task_index : IndexFlags,
          ps_hosts : HostFlags, worker_hosts : HostFlags]
NoArgs == [job_name |-> None, task_index |-> None, ps_hosts |-> None, worker_hosts |-> None]

ClusterDoc == PyDict([ps |-> PyList(<< << "a" >> >>),
                      worker |-> PyList(<< << "a" >>, << "b" >> >>)])
TaskDoc(type, i) == PyDict([type |-> PyStr(type), index |-> PyInt(i)])

\* the JSON documents TF_CONFIG holds
TfDocs ==
    { PyDict(<< >>) }
    \cup { PyDict([task |-> TaskDoc(ty, i), cluster |-> ClusterDoc]) :
              ty \in { PS, WORKER }, i \in Indices }
    \cup { PyDict([task |-> TaskDoc(WORKER, 0)]),
           PyDict([cluster |-> ClusterDoc]),
           PyDict([task |-> TaskDoc(WORKER, 0),
                   cluster |-> PyDict([ps |-> PyList(<< >>),
                                       worker |-> PyList(<< << "a" >> >>)])]),
           PyDict([task |-> PyDict([index |-> PyInt(0)]), cluster |-> ClusterDoc]) }

TfConfigs == { Unset, PyStr(<< "x" >>) } \cup { JsonText(d) : d \in TfDocs }

\* os.environ restricted to the names get_task_spec reads
Environs == [JOB_NAME : { Unset, PyStr(WORKER) },
             TASK_INDEX : { Unset, PyStr(IndexStr(0)) },
             PS_HOSTS : { Unset, PyStr(<< "a" >>) },
             WORKER_HOSTS : { Unset, PyStr(<< "a", ",", "b" >>) },
             TF_CONFIG : TfConfigs]
NoEnviron == [JOB_NAME |-> Unset, TASK_INDEX |-> Unset, PS_HOSTS |-> Unset,
              WORKER_HOSTS |-> Unset, TF_CONFIG |-> Unset]

----------------------------------------------------------------------------
(* Idle values of the parts a specification does not exercise *)

TrainIdle ==
    /\ pc = "idle" /\ task_spec = None /\ server = None /\ target = None
    /\ device = None /\ sess = "none" /\ is_chief = None /\ stop = FALSE
    /\ trace = << >> /\ pre_train_fn = FALSE /\ post_train_fn = FALSE
LaunchIdle == argv = NoArgs /\ environ = NoEnviron
CtorIdle == ctor_args = None /\ ctor_obj = None
TrainerIdle == default_hooks = << >> /\ trainers = << >>
HookIdle ==
    /\ time_running = 0 /\ end_time = Unset /\ now = 0 /\ stop_requests = 0
    /\ after_runs = 0 /\ last_requested = FALSE

----------------------------------------------------------------------------
(* get_task_spec on its own: one call per process launch *)

ResolveInit ==
    /\ argv \in Argvs /\ environ \in Environs
    /\ pc = "start" /\ task_spec = None /\ server = None /\ target = None
    /\ device = None /\ sess = "none" /\ is_chief = None /\ stop = FALSE
    /\ trace = << >> /\ pre_train_fn = FALSE /\ post_train_fn = FALSE
    /\ CtorIdle /\ TrainerIdle /\ HookIdle

\* get_task_spec() returns a TaskSpec
ResolveReturn ==
    /\ pc = "start"
    /\ TaskSpecCall(argv, environ).t = "call"
    /\ ctor_args' = TaskSpecCall(argv, environ)
    /\ task_spec' = get_task_spec(argv, environ)
    /\ pc' = "resolved"
    /\ UNCHANGED << server, target, device, sess, is_chief, stop, trace,
                    pre_train_fn, post_train_fn, ctor_obj >>
    /\ UNCHANGED << launchVars, trainerVars, hookVars >>

\* get_task_spec() raises
ResolveRaise ==
    /\ pc = "start"
    /\ TaskSpecCall(argv, environ).t = "raise"
    /\ task_spec' = get_task_spec(argv, environ)
    /\ pc' = "raised"
    /\ UNCHANGED << server, target, device, sess, is_chief, stop, trace,
                    pre_train_fn, post_train_fn, ctor_args, ctor_obj >>
    /\ UNCHANGED << launchVars, trainerVars, hookVars >>

ResolveNext == ResolveReturn \/ ResolveRaise

SpecResolve == ResolveInit /\ [][ResolveNext]_vars

----------------------------------------------------------------------------
(* Trainer.train *)

HostPairs == { << None, None >>,
               << PyStr(<< "a" >>), PyStr(<< "a", ",", "b" >>) >>,
               << PyStr(<< >>), PyStr(<< "a" >>) >> }
TrainArgvs == { a \in Argvs : << a.ps_hosts, a.worker_hosts >> \in HostPairs }
TrainEnvirons ==
    { NoEnviron,
      [JOB_NAME |-> PyStr(WORKER), TASK_INDEX |-> PyStr(IndexStr(0)),
       PS_HOSTS |-> PyStr(<< "a" >>), WORKER_HOSTS |-> PyStr(<< "a", ",", "b" >>),
       TF_CONFIG |-> Unset] }
    \cup { [NoEnviron EXCEPT !["TF_CONFIG"] = c] : c \in TfConfigs \ { Unset } }

\* a process launched with some flags and environment calls train() with some callbacks
Init ==
    /\ argv \in TrainArgvs /\ environ \in TrainEnvirons
    /\ pre_train_fn \in BOOLEAN /\ post_train_fn \in BOOLEAN
    /\ pc = "start" /\ task_spec = None /\ server = None /\ target = None
    /\ device = None /\ sess = "none" /\ is_chief = None /\ stop = FALSE
    /\ trace = << >>
    /\ CtorIdle /\ TrainerIdle /\ HookIdle

Steps(tr) == Cardinality({ i \in DOMAIN tr : tr[i] = "train_step_fn" })

\* tf.train.Server(cluster_spec, job_name=..., task_index=...)
Server(ts) == [t |-> "Server", cluster |-> ts.cluster_spec,
               job_name |-> ts.job_name, task_index |-> ts.index]
\* server.target
ServerTarget == PyStr(<< "g", "r", "p", "c" >>)
\* tf.train.replica_device_setter(worker_device='/job:worker/task:{}'.format(index), cluster=...)
DeviceSetter(ts) == [t |-> "replica_device_setter", task |-> ts.index,
                     cluster |-> ts.cluster_spec]

\* variant: the ps role does not join the server
TrainServer_NoJoin ==
    /\ pc = "resolved"
    /\ Truthy(task_spec.cluster_spec)
    /\ server' = Server(task_spec)
    /\ target' = ServerTarget
    /\ device' = DeviceSetter(task_spec)
    /\ pc' = "create_graph"
    /\ UNCHANGED << task_spec, sess, is_chief, stop, trace, pre_train_fn, post_train_fn >>
    /\ UNCHANGED << launchVars, ctorVars, trainerVars, hookVars >>

\* lines 132-141: a cluster exists; server.join() never returns
TrainServer ==
    /\ pc = "resolved"
    /\ Truthy(task_spec.cluster_spec)
    /\ server' = Server(task_spec)
    /\ IF PyEq(task_spec.job_name, PyStr(PS))
       THEN /\ pc' = "join"
            /\ UNCHANGED << target, device >>
       ELSE /\ target' = ServerTarget
            /\ device' = DeviceSetter(task_spec)
            /\ pc' = "create_graph"
    /\ UNCHANGED << task_spec, sess, is_chief, stop, trace, pre_train_fn, post_train_fn >>
    /\ UNCHANGED << launchVars, ctorVars, trainerVars, hookVars >>

\* lines 142-144: no cluster
TrainLocal ==
    /\ pc = "resolved"
    /\ ~Truthy(task_spec.cluster_spec)
    /\ device' = None
    /\ target' = PyStr(<< >>)
    /\ pc' = "create_graph"
    /\ UNCHANGED << task_spec, server, sess, is_chief, stop, trace,
                    pre_train_fn, post_train_fn >>
    /\ UNCHANGED << launchVars, ctorVars, trainerVars, hookVars >>

\* line 149: graph_data = create_graph_fn(); the callback returns or raises
CreateGraph ==
    /\ pc = "create_graph"
    /\ trace' = Append(trace, "create_graph_fn")
    /\ \E ok \in BOOLEAN : pc' = IF ok THEN "open_session" ELSE "raised"
    /\ UNCHANGED << task_spec, server, target, device, sess, is_chief, stop,
                    pre_train_fn, post_train_fn >>
    /\ UNCHANGED << launchVars, ctorVars, trainerVars, hookVars >>

\* lines 152-161: the session is entered; it may already be due to stop
OpenSession ==
    /\ pc = "open_session"
    /\ sess' = "open"
    /\ is_chief' = PyEq(task_spec.index, PyInt(0))
    /\ stop' \in BOOLEAN
    /\ trace' = Append(trace, "session_open")
    /\ pc' = "pre_train"
    /\ UNCHANGED << task_spec, server, target, device, pre_train_fn, post_train_fn >>
    /\ UNCHANGED << launchVars, ctorVars, trainerVars, hookVars >>

\* an exception leaves the `with` block: the session is released
Unwind ==
    /\ sess' = "closed"
    /\ pc' = "raised"

\* lines 163-165
PreTrain ==
    /\ pc = "pre_train"
    /\ IF pre_train_fn
       THEN \E ok \in BOOLEAN, req \in BOOLEAN :
               /\ stop' = (stop \/ req)
               /\ IF ok
                  THEN /\ trace' = Append(trace, "pre_train_fn")
                       /\ pc' = "loop"
                       /\ sess' = sess
                  ELSE /\ trace' = trace \o << "pre_train_fn", "session_close" >>
                       /\ Unwind
       ELSE /\ pc' = "loop"
            /\ UNCHANGED << stop, trace, sess >>
    /\ UNCHANGED << task_spec, server, target, device, is_chief,
                    pre_train_fn, post_train_fn >>
    /\ UNCHANGED << launchVars, ctorVars, trainerVars, hookVars >>

\* variant: the loop ignores what should_stop() returned
LoopCheck_NoCheck ==
    /\ pc = "loop"
    /\ trace' = Append(trace, IF stop THEN "should_stop=True" ELSE "should_stop=False")
    /\ pc' = IF Steps(trace) < MaxSteps THEN "step" ELSE "post_train"
    /\ UNCHANGED << task_spec, server, target, device, sess, is_chief, stop,
                    pre_train_fn, post_train_fn >>
    /\ UNCHANGED << launchVars, ctorVars, trainerVars, hookVars >>

\* line 169: while not sess.should_stop()
LoopCheck ==
    /\ pc = "loop"
    /\ trace' = Append(trace, IF stop THEN "should_stop=True" ELSE "should_stop=False")
    /\ pc' = IF stop THEN "post_train" ELSE "step"
    /\ UNCHANGED << task_spec, server, target, device, sess, is_chief, stop,
                    pre_train_fn, post_train_fn >>
    /\ UNCHANGED << launchVars, ctorVars, trainerVars, hookVars >>

\* line 170: train_step_fn(sess, graph_data); hooks or the step may request the stop
TrainStep ==
    /\ pc = "step"
    /\ Steps(trace) < MaxSteps
    /\ \E ok \in BOOLEAN, req \in BOOLEAN :
          /\ stop' = (stop \/ req)
          /\ IF ok
             THEN /\ trace' = Append(trace, "train_step_fn")
                  /\ pc' = "loop"
                  /\ sess' = sess
             ELSE /\ trace' = trace \o << "train_step_fn", "session_close" >>
                  /\ Unwind
    /\ UNCHANGED << task_spec, server, target, device, is_chief,
                    pre_train_fn, post_train_fn >>
    /\ UNCHANGED << launchVars, ctorVars, trainerVars, hookVars >>

\* lines 172-174
PostTrain ==
    /\ pc = "post_train"
    /\ IF post_train_fn
       THEN \E ok \in BOOLEAN :
               IF ok
               THEN /\ trace' = Append(trace, "post_train_fn")
                    /\ pc' = "close"
                    /\ sess' = sess
               ELSE /\ trace' = trace \o << "post_train_fn", "session_close" >>
                    /\ Unwind
       ELSE /\ pc' = "close"
            /\ UNCHANGED << trace, sess >>
    /\ UNCHANGED << task_spec, server, target, device, is_chief, stop,
                    pre_train_fn, post_train_fn >>
    /\ UNCHANGED << launchVars, ctorVars, trainerVars, hookVars >>

\* the end of the `with` block of line 152: the session is released, train() returns
CloseSession ==
    /\ pc = "close"
    /\ sess' = "closed"
    /\ trace' = Append(trace, "session_close")
    /\ pc' = "done"
    /\ UNCHANGED << task_spec, server, target, device, is_chief, stop,
                    pre_train_fn, post_train_fn >>
    /\ UNCHANGED << launchVars, ctorVars, trainerVars, hookVars >>

Next ==
    \/ ResolveReturn \/ ResolveRaise
    \/ TrainServer \/ TrainLocal
    \/ CreateGraph \/ OpenSession \/ PreTrain
    \/ LoopCheck \/ TrainStep \/ PostTrain \/ CloseSession

Spec == Init /\ [][Next]_vars

----------------------------------------------------------------------------
(* TaskSpec construction on its own: both forms of a host list *)

HostChars == { "a" }
\* host:port endpoints: non-empty strings without a comma
Endpoints == UNION { [1..n -> HostChars] : n \in 1..MaxHostLen }
EndpointLists == UNION { [1..n -> Endpoints] : n \in 0..MaxHosts }

\* a host list as the caller passes it: a list of str, or one comma-separated str
Encode(l, form) == IF form = "list" THEN PyList(l) ELSE PyStr(Join(l, ","))
HostArgs == { None } \cup { Encode(l, f) : l \in EndpointLists, f \in { "list", "str" } }

TaskSpecInitial ==
    /\ CtorIdle /\ TrainIdle /\ LaunchIdle /\ TrainerIdle /\ HookIdle

\* TaskSpec(job_name, index, ps_hosts, worker_hosts)
TaskSpecNew ==
    /\ ctor_args = None
    /\ \E p \in HostArgs, w \in HostArgs :
          LET c == Call(PyStr(WORKER), PyInt(0), p, w)
          IN  /\ ctor_args' = c
              /\ ctor_obj' = Construct(c)
    /\ UNCHANGED << trainVars, launchVars, trainerVars, hookVars >>

SpecTaskSpec == TaskSpecInitial /\ [][TaskSpecNew]_vars

----------------------------------------------------------------------------
(* Trainer.__init__: the hooks list and the time limit.  The paths, cadences and
   session configuration it stores are passed through to the session unchanged. *)

\* StopAtTimeHook.__init__
StopAtTimeHook(t) == [cls |-> "StopAtTimeHook", _time_running |-> t]
UserHook == [cls |-> "UserHook"]

\* max_time: the default (line 88), zero, and a positive limit
MaxTimes == { -1, 0, 5 }
\* hooks: the argument is omitted, or the caller passes a list of its own
HooksArgs == { [given |-> FALSE, list |-> << >>],
               [given |-> TRUE, list |-> << >>],
               [given |-> TRUE, list |-> << UserHook >>] }

\* lines 116-117, on the list self.hooks refers to
WithTimeLimit(hooks, max_time) ==
    IF max_time > 0 THEN Append(hooks, StopAtTimeHook(max_time)) ELSE hooks

\* self.hooks: the list object the Trainer refers to
HooksOf(tr) == IF tr.hooks_is_default THEN default_hooks ELSE tr.hooks

TrainerInitial ==
    /\ default_hooks = << >> /\ trainers = << >>
    /\ CtorIdle /\ TrainIdle /\ LaunchIdle /\ HookIdle

\* Trainer(dataset_spec, log_dir, max_time=..., hooks=...)
TrainerNew ==
    /\ Len(trainers) < MaxTrainers
    /\ \E max_time \in MaxTimes, hooks \in HooksArgs :
          IF hooks.given
          THEN /\ trainers' = Append(trainers,
                      [max_time |-> max_time, hooks_is_default |-> FALSE,
                       hooks |-> WithTimeLimit(hooks.list, max_time)])
               /\ UNCHANGED default_hooks
          ELSE /\ default_hooks' = WithTimeLimit(default_hooks, max_time)
               /\ trainers' = Append(trainers,
                      [max_time |-> max_time, hooks_is_default |-> TRUE,
                       hooks |-> << >>])
    /\ UNCHANGED << trainVars, launchVars, ctorVars, hookVars >>

SpecTrainer == TrainerInitial /\ [][TrainerNew]_vars

----------------------------------------------------------------------------
(* StopAtTimeHook, driven by a monitored session: begin() once, then after_run()
   after every run call, while the clock advances *)

HookInitial ==
    /\ time_running \in 1..MaxDuration
    /\ end_time = Unset /\ now = 0 /\ stop_requests = 0
    /\ after_runs = 0 /\ last_requested = FALSE
    /\ CtorIdle /\ TrainIdle /\ LaunchIdle /\ TrainerIdle

\* variant: >= in place of >
Expired_AtDeadline(time, deadline) == time >= deadline
\* time.time() > self._end_time
Expired(time, deadline) == time > deadline

\* begin
HookBegin ==
    /\ end_time = Unset
    /\ end_time' = PyInt(now + time_running)
    /\ UNCHANGED << time_running, now, stop_requests, after_runs, last_requested >>
    /\ UNCHANGED << trainVars, launchVars, ctorVars, trainerVars >>

\* after_run
HookAfterRun ==
    /\ end_time # Unset
    /\ after_runs < MaxCalls
    /\ after_runs' = after_runs + 1
    /\ IF Expired(now, end_time.v)
       THEN stop_requests' = stop_requests + 1 /\ last_requested' = TRUE
       ELSE stop_requests' = stop_requests /\ last_requested' = FALSE
    /\ UNCHANGED << time_running, end_time, now >>
    /\ UNCHANGED << trainVars, launchVars, ctorVars, trainerVars >>

\* the clock advances
Tick ==
    /\ now < MaxNow
    /\ now' = now + 1
    /\ UNCHANGED << time_running, end_time, stop_requests, after_runs, last_requested >>
    /\ UNCHANGED << trainVars, launchVars, ctorVars, trainerVars >>

HookNext == HookBegin \/ HookAfterRun \/ Tick

SpecHook == HookInitial /\ [][HookNext]_vars

----------------------------------------------------------------------------
(* Properties *)

Returned == pc \in { "resolved", "raised" }

\* C1: with no --job_name flag and neither JOB_NAME nor TF_CONFIG in the
\* environment, get_task_spec() returns job_name "master", index 0 and no cluster_spec.
C1_LocalDefault ==
    (Returned /\ argv.job_name = None
        /\ environ["JOB_NAME"] = Unset /\ environ["TF_CONFIG"] = Unset)
    => task_spec = [t |-> "TaskSpec", job_name |-> PyStr(MASTER),
                    index |-> PyInt(0), cluster_spec |-> None]

\* what get_task_spec returns from the flags alone
FromFlags(tspec, args) ==
    /\ tspec.t = "TaskSpec"
    /\ tspec.job_name = args.job_name
    /\ tspec.index = args.task_index
    /\ \A e \in Environs : get_task_spec(args, e) = tspec

\* C2 (as stated): whenever --job_name is set, the result has the flags' job_name and
\* index, and is the same for every content of the environment.
C2_FlagSetIgnoresEnviron ==
    (Returned /\ argv.job_name # None) => FromFlags(task_spec, argv)

\* C2 (amended): whenever --job_name is set to a non-empty value, the result has the
\* flags' job_name and index, and is the same for every content of the environment.
C2_NonEmptyFlagIgnoresEnviron ==
    (Returned /\ argv.job_name # None /\ Len(argv.job_name.v) > 0)
    => FromFlags(task_spec, argv)

C2_Witness ==
    /\ pc = "resolved"
    /\ argv.job_name = PyStr(PS) /\ argv.task_index = PyStr(IndexStr(1))
    /\ environ["JOB_NAME"] # Unset /\ environ["TASK_INDEX"] # Unset
    /\ environ["TF_CONFIG"] # Unset

EnvOrNone(env, key) == IF env[key] = Unset THEN None ELSE env[key]

\* C3: with no --job_name flag and JOB_NAME set, get_task_spec returns without
\* raising a TaskSpec with job_name JOB_NAME, index TASK_INDEX and the host lists of
\* PS_HOSTS and WORKER_HOSTS (no cluster when one is absent), whatever TF_CONFIG holds.
C3_EnvironFallback ==
    (Returned /\ argv.job_name = None /\ environ["JOB_NAME"] # Unset)
    => /\ task_spec.t = "TaskSpec"
       /\ task_spec.job_name = environ["JOB_NAME"]
       /\ environ["TASK_INDEX"] # Unset => task_spec.index = environ["TASK_INDEX"]
       /\ task_spec.cluster_spec =
             TaskSpecInit(environ["JOB_NAME"], None, EnvOrNone(environ, "PS_HOSTS"),
                          EnvOrNone(environ, "WORKER_HOSTS")).cluster_spec

StopHooks(hooks) ==
    Cardinality({ i \in DOMAIN hooks : hooks[i].cls = "StopAtTimeHook" })

\* C4: after any sequence of Trainer constructions, a Trainer built with max_time=5
\* has exactly one StopAtTimeHook in its hooks list and one built with max_time=-1
\* has none.
C4_OneStopHookPerLimit ==
    \A i \in DOMAIN trainers :
        /\ trainers[i].max_time = 5 => StopHooks(HooksOf(trainers[i])) = 1
        /\ trainers[i].max_time = -1 => StopHooks(HooksOf(trainers[i])) = 0

HookState ==
    IF end_time = Unset THEN "idle"
    ELSE IF stop_requests = 0 THEN "running" ELSE "expired"

DigitValue(c) == CHOOSE d \in 0..9 : Digits[d + 1] = c

\* the task number an index value stands for, or -1 when it stands for none
IndexValue(x) ==
    CASE x.t = "int" -> x.v
      [] x.t = "str" /\ Len(x.v) = 1 /\ (\E d \in 0..9 : Digits[d + 1] = x.v[1])
            -> DigitValue(x.v[1])
      [] OTHER -> -1

\* C6: whatever source the task spec came from, the monitored session is opened
\* with is_chief true exactly when the task's index is 0.
C6_ChiefIffIndexZero ==
    (sess # "none") => (is_chief <=> (IndexValue(task_spec.index) = 0))

NonEmptyHosts(h) == h # None /\ Len(h.v) > 0

\* C7 (as stated): cluster_spec is present iff both host lists were supplied
\* (not None), and the TaskSpec never changes after construction.
C7_ClusterIffSupplied ==
    /\ [](task_spec.t = "TaskSpec" =>
            ((task_spec.cluster_spec # None)
                <=> (ctor_args.ps_hosts # None /\ ctor_args.worker_hosts # None)))
    /\ [][task_spec.t = "TaskSpec" => task_spec' = task_spec]_vars

\* C7 (amended): cluster_spec is present iff both host lists were supplied and
\* neither is empty, and the TaskSpec never changes after construction.
C7_ClusterIffNonEmpty ==
    /\ [](task_spec.t = "TaskSpec" =>
            ((task_spec.cluster_spec # None)
                <=> (NonEmptyHosts(ctor_args.ps_hosts)
                        /\ NonEmptyHosts(ctor_args.worker_hosts))))
    /\ [][task_spec.t = "TaskSpec" => task_spec' = task_spec]_vars

C7_Witness ==
    /\ pc = "done"
    /\ task_spec.t = "TaskSpec"
    /\ ctor_args.ps_hosts = PyList(<< >>)
    /\ NonEmptyHosts(ctor_args.worker_hosts)
    /\ task_spec.cluster_spec = None

\* the endpoints a host argument stands for
SuppliedEndpoints(h) ==
    IF h.t = "list" THEN h.v
    ELSE CHOOSE l \in EndpointLists : Join(l, ",") = h.v

ShouldStop == { "should_stop=True", "should_stop=False" }

\* C9: create_graph_fn is called once, before the session is opened; pre_train_fn
\* (if given) once, after the session is opened and before any train_step_fn;
\* train_step_fn once per iteration and only after should_stop() read false;
\* post_train_fn (if given) once, after the loop exits and before the session is
\* released, with no train_step_fn after it.
C9_CallbackOrder ==
    LET n == Len(trace)
    IN  /\ \A i \in 1..n :
              /\ (trace[i] = "create_graph_fn") <=> (i = 1)
              /\ (trace[i] = "session_open") <=> (i = 2)
              /\ (trace[i] = "pre_train_fn") => (pre_train_fn /\ i = 3)
              /\ (pre_train_fn /\ i = 3) => (trace[i] = "pre_train_fn")
              /\ (trace[i] \in ShouldStop) =>
                    trace[i - 1] \in { "train_step_fn",
                        IF pre_train_fn THEN "pre_train_fn" ELSE "session_open" }
              /\ (trace[i] = "train_step_fn") => (trace[i - 1] = "should_stop=False")
              /\ (trace[i] = "should_stop=False" /\ i < n) =>
                    (trace[i + 1] = "train_step_fn")
              /\ (trace[i] = "should_stop=True" /\ i < n) =>
                    (trace[i + 1] = IF post_train_fn THEN "post_train_fn"
                                    ELSE "session_close")
              /\ (trace[i] = "post_train_fn") =>
                    /\ post_train_fn
                    /\ trace[i - 1] = "should_stop=True"
                    /\ sess = "open" \/ (i = n - 1 /\ trace[n] = "session_close")
              /\ (trace[i] = "session_close") => (i = n /\ i > 2 /\ sess = "closed")
        /\ (sess = "open") => (n >= 2 /\ trace[n] # "session_close")
        /\ (pc = "done") =>
              /\ trace[n] = "session_close"
              /\ trace[n - 1] = IF post_train_fn THEN "post_train_fn"
                                ELSE "should_stop=True"

C9_Witness ==
    /\ pc = "done" /\ pre_train_fn /\ post_train_fn
    /\ Steps(trace) = 2

\* C10: with a cluster and the ps role, train() starts the server and stays in
\* server.join(): it never returns, calls no callback and opens no session; with
\* no cluster, no server is started and the target is empty, whatever the role.
C10_ParameterServerBlocks ==
    /\ []((task_spec.t = "TaskSpec" /\ pc \notin { "start", "resolved" }) =>
            IF task_spec.cluster_spec # None
            THEN /\ server # None
                 /\ PyEq(task_spec.job_name, PyStr(PS)) =>
                       (pc = "join" /\ trace = << >> /\ sess = "none")
            ELSE /\ server = None
                 /\ target = PyStr(<< >>))
    /\ [][pc = "join" => pc' = "join"]_vars

C10_Witness ==
    /\ pc = "join" /\ server # None
    /\ task_spec.cluster_spec # None

====
